---- MODULE Spec2Model ----
(***************************************************************************)
(* Model of github.com/LullNil/go-http-utils: the response envelope        *)
(* (package response), the classified error (package apperr) and the       *)
(* request pipeline helpers (package httputils), driven by the handler     *)
(* shown in the README quick start.                                        *)
(***************************************************************************)
EXTENDS Integers, Sequences, FiniteSets, TLC

\* ------------------------------------------------------------------ bounds
MaxBody == 5      \* longest request body, in JSON tokens
MaxWrap == 1      \* deepest fmt.Errorf("%w") wrapping of a business error

\* --------------------------------------------------------- request bodies
\* A request body is a sequence of JSON tokens.  "k" is the member key
\* "name": (key and colon), "A" and "Al" are string literals of one and two
\* characters, "7" is a number literal and "x" is a byte that starts no value.
StrTok == {"A", "Al"}
Tokens == {"{", "}", "k", "7", "x"} \cup StrTok

RECURSIVE SeqsUpTo(_, _)
SeqsUpTo(S, n) ==
  IF n = 0 THEN {<<>>}
  ELSE LET shorter == SeqsUpTo(S, n - 1)
       IN  shorter \cup {Append(s, t) : s \in {q \in shorter : Len(q) = n - 1}, t \in S}

Bodies == SeqsUpTo(Tokens, MaxBody)

Drop(s, n) == SubSeq(s, n + 1, Len(s))

\* The scanner of encoding/json as DecodeRequest drives it: it reads ONE JSON
\* value from the front of the stream and stops at that value's last token.
\*   st = "eof"     the stream ended before or inside the value
\*   st = "syntax"  a token that cannot continue the value
\*   st = "string" | "number" | "object"   a complete value of n tokens;
\*        for an object, has/mst/mv describe its "name" member.
RECURSIVE scanValue(_)
scanValue(s) ==
  IF s = <<>> THEN [st |-> "eof", n |-> 0, has |-> FALSE, mst |-> "", mv |-> ""]
  ELSE IF s[1] \in StrTok THEN [st |-> "string", n |-> 1, has |-> FALSE, mst |-> "", mv |-> s[1]]
  ELSE IF s[1] = "7" THEN [st |-> "number", n |-> 1, has |-> FALSE, mst |-> "", mv |-> ""]
  ELSE IF s[1] = "{" THEN
    IF Len(s) = 1 THEN [st |-> "eof", n |-> 0, has |-> FALSE, mst |-> "", mv |-> ""]
    ELSE IF s[2] = "}" THEN [st |-> "object", n |-> 2, has |-> FALSE, mst |-> "", mv |-> ""]
    ELSE IF s[2] = "k" THEN
      LET inner == scanValue(Drop(s, 2))
          m     == 2 + inner.n
      IN  IF inner.st \in {"eof", "syntax"} THEN [inner EXCEPT !.n = 0]
          ELSE IF Len(s) < m + 1 THEN [st |-> "eof", n |-> 0, has |-> FALSE, mst |-> "", mv |-> ""]
          ELSE IF s[m + 1] = "}"
               THEN [st |-> "object", n |-> m + 1, has |-> TRUE, mst |-> inner.st, mv |-> inner.mv]
               ELSE [st |-> "syntax", n |-> 0, has |-> FALSE, mst |-> "", mv |-> ""]
    ELSE [st |-> "syntax", n |-> 0, has |-> FALSE, mst |-> "", mv |-> ""]
  ELSE [st |-> "syntax", n |-> 0, has |-> FALSE, mst |-> "", mv |-> ""]

\* The zero value of the request struct T = struct{ Name string }.
ZeroReq == [Name |-> ""]

\* json.NewDecoder(r.Body).Decode(&req) for T: err is "" on success, else the
\* kind of error; whatever follows the first value in the body is never read.
jsonDecode(body) ==
  LET v == scanValue(body)
  IN  CASE v.st = "eof" /\ body = <<>> -> [err |-> "EOF", req |-> ZeroReq]
        [] v.st = "eof" /\ body # <<>> -> [err |-> "unexpected EOF", req |-> ZeroReq]
        [] v.st = "syntax"             -> [err |-> "invalid character", req |-> ZeroReq]
        [] v.st \in {"string", "number"} -> [err |-> "cannot unmarshal into Go value", req |-> ZeroReq]
        [] v.st = "object" /\ ~v.has   -> [err |-> "", req |-> ZeroReq]
        [] v.st = "object" /\ v.has /\ v.mst = "string" -> [err |-> "", req |-> [Name |-> v.mv]]
        [] OTHER -> [err |-> "cannot unmarshal into Go struct field", req |-> ZeroReq]

\* Length of a decoded string.
StrLen(s) == CASE s = "" -> 0 [] s = "A" -> 1 [] s = "Al" -> 2 [] OTHER -> 3

\* validate.Struct(req) for the tags `validate:"required,min=2"` on Name:
\* "" when every rule holds, else the text of the violation.
validateStruct(req) ==
  IF req.Name = "" THEN "Name failed on the 'required' tag"
  ELSE IF StrLen(req.Name) < 2 THEN "Name failed on the 'min' tag"
  ELSE ""

\* ------------------------------------------------------ package response
StatusOK == "OK"
StatusError == "Error"

\* Values a caller can hand over as `any`:
\*   "nil"      the nil interface
\*   "typednil" a non-nil interface holding a nil pointer (encodes as null)
\*   "emptymap" a non-nil empty map (encodes as {})
\*   "list"     a non-empty slice
\*   "chan"     a channel, which encoding/json cannot encode
Nil == "nil"
Payloads == {Nil, "typednil", "emptymap", "list", "chan"}

\* type Response struct { Status; Error `omitempty`; Data `omitempty` }
Response(status, error, data) == [Status |-> status, Error |-> error, Data |-> data]

\* OK that carries an error text.
OKWithError == Response(StatusOK, "ok", Nil)

OK == Response(StatusOK, "", Nil)

\* DataOK that forgets its argument.
DataOKNoData(data) == Response(StatusOK, "", Nil)

DataOK(data) == Response(StatusOK, "", data)

\* DataWithError that forgets the payload.
DataWithErrorNoData(msg, data) == Response(StatusError, msg, Nil)

DataWithError(msg, data) == Response(StatusError, msg, data)

Error(msg) == Response(StatusError, msg, Nil)

\* json.Marshal of a payload value.
marshalAny(d) ==
  CASE d = "typednil" -> "null"
    [] d = "emptymap" -> "{}"
    [] d = "list"     -> "[1,2]"
    [] OTHER          -> "unsupported"

\* The omitempty rule of encoding/json: a string is empty when it is "",
\* an interface is empty when it is the nil interface.
errorMembers(resp) ==
  IF resp.Error = "" THEN <<>> ELSE << <<"error", resp.Error>> >>

dataMembers(resp) ==
  IF resp.Data = Nil THEN <<>> ELSE << <<"data", marshalAny(resp.Data)>> >>

\* json.NewEncoder(w).Encode(resp): the members of the JSON object in the
\* order of the struct's fields, or an error and no output at all.
jsonEncode(resp) ==
  IF resp.Data = "chan"
  THEN [err |-> "json: unsupported type", doc |-> <<>>]
  ELSE [err |-> "",
        doc |-> << <<"status", resp.Status>> >> \o errorMembers(resp) \o dataMembers(resp)]

\* --------------------------------------------------- http.ResponseWriter
\* header: the Content-Type the client will see; status: 0 until committed;
\* body: the documents written; calls: every call made on the writer.
NewWriter == [header |-> "", status |-> 0, body |-> <<>>, calls |-> <<>>]

\* w.Header().Set("Content-Type", v): headers set after the status is
\* committed do not reach the client.
setContentType(w, v) ==
  [w EXCEPT !.header = IF w.status = 0 THEN v ELSE @,
            !.calls = Append(@, "Header.Set")]

\* w.WriteHeader(code): only the first call commits a status.
writeHeader(w, code) ==
  [w EXCEPT !.status = IF w.status = 0 THEN code ELSE @,
            !.calls = Append(@, "WriteHeader")]

\* w.Write(doc): commits the status 200 when none was committed.
write(w, doc) ==
  [w EXCEPT !.status = IF w.status = 0 THEN 200 ELSE @,
            !.body = Append(@, doc),
            !.calls = Append(@, "Write")]

\* Encode onto the writer; an encoding error is dropped by every caller.
encodeTo(w, resp) ==
  LET e == jsonEncode(resp)
  IN  IF e.err = "" THEN write(w, e.doc) ELSE w

\* writeJSON that commits the status before it sets the content type.
writeJSONStatusFirst(w, status, data) ==
  encodeTo(setContentType(writeHeader(w, status), "application/json"), data)

writeJSON(w, status, data) ==
  encodeTo(writeHeader(setContentType(w, "application/json"), status), data)

\* ---------------------------------------------------------------- slog
Record(level, msg, op, err) == [level |-> level, msg |-> msg, op |-> op, err |-> err]

\* Err that answers with the text of the error instead of msg.
ErrLeak(w, log, op, errText, msg, httpStatus) ==
  [log |-> Append(log, Record("ERROR", msg, op, errText)),
   w   |-> encodeTo(writeHeader(setContentType(w, "application/json"), httpStatus), Error(errText[1]))]

\* response.Err: one error record, then the envelope Error(msg).
Err(w, log, op, errText, msg, httpStatus) ==
  [log |-> Append(log, Record("ERROR", msg, op, errText)),
   w   |-> encodeTo(writeHeader(setContentType(w, "application/json"), httpStatus), Error(msg))]

\* -------------------------------------------------------- package apperr
\* An error value is its chain, outermost first.  The dynamic type of a
\* link is "*fmt.wrapError", "*errors.errorString", "apperr.HTTPError"
\* (the struct) or "*apperr.HTTPError" (a pointer to it).
HTTPError(type, code, msg, data) ==
  [type |-> type, Code |-> code, Message |-> msg, Data |-> data]

\* func New(code, msg) *HTTPError
New(code, msg) == << HTTPError("*apperr.HTTPError", code, msg, Nil) >>

\* func NewWithData(code, msg, data) *HTTPError
NewWithData(code, msg, data) == << HTTPError("*apperr.HTTPError", code, msg, data) >>

\* func New(code, msg) HTTPError, the value-returning form
NewValue(code, msg) == << HTTPError("apperr.HTTPError", code, msg, Nil) >>

\* errors.New(text)
errorsNew(text) == << [type |-> "*errors.errorString", Code |-> 0, Message |-> text, Data |-> Nil] >>

\* fmt.Errorf("ctx: %w", err)
wrap(err) == << [type |-> "*fmt.wrapError", Code |-> 0, Message |-> "ctx: ", Data |-> Nil] >> \o err

RECURSIVE wrapN(_, _)
wrapN(err, n) == IF n = 0 THEN err ELSE wrap(wrapN(err, n - 1))

\* err.Error(): the pieces of the text, wrappers' prefixes first.
errorText(err) == [i \in 1..Len(err) |-> err[i].Message]

\* errors.As(err, &target) for a target of static type targetType: the
\* first link of the chain whose dynamic type is targetType, 0 when none.
errorsAs(err, targetType) ==
  LET hits == {i \in 1..Len(err) : err[i].type = targetType}
  IN  IF hits = {} THEN 0 ELSE CHOOSE i \in hits : \A j \in hits : i <= j

\* ------------------------------------------------------ package httputils
\* Each helper maps the writer and the log it is given to the writer and
\* the log it leaves behind, next to what it returns.

\* DecodeRequest that also logs a record when the body decodes.
DecodeRequestLogsSuccess(w, body, log, op) ==
  LET d == jsonDecode(body)
  IN  IF d.err # ""
      THEN LET logged == Append(log, Record("ERROR", "failed to decode request body", op, <<d.err>>))
               e      == Err(w, logged, op, <<d.err>>, "invalid request payload", 400)
           IN  [req |-> d.req, ok |-> FALSE, w |-> e.w, log |-> e.log]
      ELSE [req |-> d.req, ok |-> TRUE, w |-> w,
            log |-> Append(log, Record("INFO", "request decoded", op, <<>>))]

DecodeRequest(w, body, log, op) ==
  LET d == jsonDecode(body)
  IN  IF d.err # ""
      THEN LET logged == Append(log, Record("ERROR", "failed to decode request body", op, <<d.err>>))
               e      == Err(w, logged, op, <<d.err>>, "invalid request payload", 400)
           IN  [req |-> d.req, ok |-> FALSE, w |-> e.w, log |-> e.log]
      ELSE [req |-> d.req, ok |-> TRUE, w |-> w, log |-> log]

\* ValidateRequest that answers with the message of DecodeRequest.
ValidateRequestDecodeMsg(w, log, op, req) ==
  LET v == validateStruct(req)
  IN  IF v # ""
      THEN LET logged == Append(log, Record("ERROR", "validation failed", op, <<v>>))
               e      == Err(w, logged, op, <<v>>, "invalid request payload", 400)
           IN  [ok |-> FALSE, w |-> e.w, log |-> e.log]
      ELSE [ok |-> TRUE, w |-> w, log |-> log]

ValidateRequest(w, log, op, req) ==
  LET v == validateStruct(req)
  IN  IF v # ""
      THEN LET logged == Append(log, Record("ERROR", "validation failed", op, <<v>>))
               e      == Err(w, logged, op, <<v>>, "invalid input data", 400)
           IN  [ok |-> FALSE, w |-> e.w, log |-> e.log]
      ELSE [ok |-> TRUE, w |-> w, log |-> log]

SendOK(w, log, op) ==
  [w   |-> writeJSON(w, 200, OK),
   log |-> Append(log, Record("INFO", "operation successful", op, <<>>))]

\* SendDataOK that logs success only when the body was written.
SendDataOKLogsIfWritten(w, log, op, data) ==
  LET out == writeJSON(w, 200, DataOK(data))
  IN  [w   |-> out,
       log |-> IF Len(out.body) > Len(w.body)
               THEN Append(log, Record("INFO", "operation successful", op, <<>>))
               ELSE log]

SendDataOK(w, log, op, data) ==
  [w   |-> writeJSON(w, 200, DataOK(data)),
   log |-> Append(log, Record("INFO", "operation successful", op, <<>>))]

\* WriteHTTPError that answers an unclassified error with the error's text.
WriteHTTPErrorLeak(w, log, op, err) ==
  LET i == errorsAs(err, "*apperr.HTTPError")
  IN  IF i # 0
      THEN LET httpErr == err[i]
           IN  [log |-> Append(log, Record("ERROR", "handled error", op, <<httpErr.Message>>)),
                w   |-> IF httpErr.Data # Nil
                        THEN writeJSON(w, httpErr.Code, DataWithError(httpErr.Message, httpErr.Data))
                        ELSE writeJSON(w, httpErr.Code, Error(httpErr.Message))]
      ELSE [log |-> Append(log, Record("ERROR", "internal error", op, errorText(err))),
            w   |-> writeJSON(w, 500, Error(err[Len(err)].Message))]

WriteHTTPError(w, log, op, err) ==
  LET i == errorsAs(err, "*apperr.HTTPError")
  IN  IF i # 0
      THEN LET httpErr == err[i]
           IN  [log |-> Append(log, Record("ERROR", "handled error", op, <<httpErr.Message>>)),
                w   |-> IF httpErr.Data # Nil
                        THEN writeJSON(w, httpErr.Code, DataWithError(httpErr.Message, httpErr.Data))
                        ELSE writeJSON(w, httpErr.Code, Error(httpErr.Message))]
      ELSE [log |-> Append(log, Record("ERROR", "internal error", op, errorText(err))),
            w   |-> writeJSON(w, 500, Error("internal server error"))]

\* ------------------------------------------------- the handler of a request
\* What the service layer can return to the handler.
Codes == {400, 404, 409}
Messages == {"", "user not found"}
Texts == {"", "db down"}

BaseErrors ==
       {New(c, m) : c \in Codes, m \in Messages}
  \cup {NewValue(c, m) : c \in Codes, m \in Messages}
  \cup UNION {{NewWithData(c, m, d) : c \in Codes, m \in Messages} : d \in Payloads}
  \cup {errorsNew(t) : t \in Texts}

Errors == UNION {{wrapN(e, n) : e \in BaseErrors} : n \in 0..MaxWrap}

Outcomes ==
       {[kind |-> "ok", data |-> Nil, err |-> <<>>]}
  \cup {[kind |-> "data", data |-> d, err |-> <<>>] : d \in Payloads}
  \cup {[kind |-> "err", data |-> Nil, err |-> e] : e \in Errors}

NoOutcome == [kind |-> "none", data |-> Nil, err |-> <<>>]

op == "handler.CreateUser"

VARIABLES
  pc,        \* where the handler is: Received, Decoded, Validated, Ran, Returned
  body,      \* r.Body
  req,       \* the value DecodeRequest returned
  decodeOk,  \* the flag DecodeRequest returned ("unset" before the call)
  validOk,   \* the flag ValidateRequest returned ("unset" before the call)
  result,    \* what the business logic returned
  w,         \* the http.ResponseWriter of the request
  log,       \* the records handed to the logger, oldest first
  epc,       \* round trip of an envelope: idle, start, built, encoded, decoded
  envelope,  \* the constructor called, its arguments and the Response it built
  encoded,   \* what json.Marshal made of the Response
  decoded,   \* the Response that json.Unmarshal made of the encoded form
  cpc,       \* simultaneous requests: where the handler of each one is
  cbody,     \* the body of each request
  creq,      \* the value DecodeRequest returned to each handler
  cresult,   \* what the business logic returned to each handler
  cw,        \* the http.ResponseWriter of each request
  clog,      \* the one logger all handlers share
  vcache     \* the struct types the shared validator has cached

reqVars == <<pc, body, req, decodeOk, validOk, result, w, log>>

envVars == <<epc, envelope, encoded, decoded>>

concVars == <<cpc, cbody, creq, cresult, cw, clog, vcache>>

vars == <<reqVars, envVars, concVars>>

\* No simultaneous requests are being handled.
ConcIdle ==
  /\ cpc = <<>>
  /\ cbody = <<>>
  /\ creq = <<>>
  /\ cresult = <<>>
  /\ cw = <<>>
  /\ clog = <<>>
  /\ vcache = {}

NoEnvelope == [ctor |-> "none", msg |-> "", data |-> Nil, resp |-> Response("", "", Nil)]

NoEncoding == [err |-> "", doc |-> <<>>]

\* No envelope round trip is under way.
EnvIdle ==
  /\ epc = "idle"
  /\ envelope = NoEnvelope
  /\ encoded = NoEncoding
  /\ decoded = Response("", "", Nil)

Init ==
  /\ pc = "Received"
  /\ body \in Bodies
  /\ req = ZeroReq
  /\ decodeOk = "unset"
  /\ validOk = "unset"
  /\ result = NoOutcome
  /\ w = NewWriter
  /\ log = <<>>
  /\ EnvIdle
  /\ ConcIdle

\* A handler that forgets the `return` after a failed DecodeRequest.
HandlerDecodeNoReturn ==
  /\ pc = "Received"
  /\ LET d == DecodeRequest(w, body, log, op)
     IN  /\ req' = d.req
         /\ decodeOk' = d.ok
         /\ w' = d.w
         /\ log' = d.log
         /\ pc' = "Decoded"
  /\ UNCHANGED <<body, validOk, result>>
  /\ UNCHANGED <<envVars, concVars>>

\* req, ok := httputils.DecodeRequest[T](w, r, h.log, op); if !ok { return }
HandlerDecode ==
  /\ pc = "Received"
  /\ LET d == DecodeRequest(w, body, log, op)
     IN  /\ req' = d.req
         /\ decodeOk' = d.ok
         /\ w' = d.w
         /\ log' = d.log
         /\ pc' = IF d.ok THEN "Decoded" ELSE "Returned"
  /\ UNCHANGED <<body, validOk, result>>
  /\ UNCHANGED <<envVars, concVars>>

\* if !httputils.ValidateRequest(w, r, h.log, op, req) { return }
HandlerValidate ==
  /\ pc = "Decoded"
  /\ LET v == ValidateRequest(w, log, op, req)
     IN  /\ validOk' = v.ok
         /\ w' = v.w
         /\ log' = v.log
         /\ pc' = IF v.ok THEN "Validated" ELSE "Returned"
  /\ UNCHANGED <<body, req, decodeOk, result>>
  /\ UNCHANGED <<envVars, concVars>>

\* err := h.service.CreateUser(...) / users, err := h.service.GetUsers(...)
BusinessLogic ==
  /\ pc = "Validated"
  /\ result' \in Outcomes
  /\ pc' = "Ran"
  /\ UNCHANGED <<body, req, decodeOk, validOk, w, log>>
  /\ UNCHANGED <<envVars, concVars>>

\* if err != nil { httputils.WriteHTTPError(w, h.log, op, err); return }
HandlerWriteHTTPError ==
  /\ pc = "Ran"
  /\ result.kind = "err"
  /\ LET e == WriteHTTPError(w, log, op, result.err)
     IN  w' = e.w /\ log' = e.log
  /\ pc' = "Returned"
  /\ UNCHANGED <<body, req, decodeOk, validOk, result>>
  /\ UNCHANGED <<envVars, concVars>>

\* httputils.SendOK(w, r, h.log, op)
HandlerSendOK ==
  /\ pc = "Ran"
  /\ result.kind = "ok"
  /\ LET s == SendOK(w, log, op)
     IN  w' = s.w /\ log' = s.log
  /\ pc' = "Returned"
  /\ UNCHANGED <<body, req, decodeOk, validOk, result>>
  /\ UNCHANGED <<envVars, concVars>>

\* httputils.SendDataOK(w, r, h.log, op, users)
HandlerSendDataOK ==
  /\ pc = "Ran"
  /\ result.kind = "data"
  /\ LET s == SendDataOK(w, log, op, result.data)
     IN  w' = s.w /\ log' = s.log
  /\ pc' = "Returned"
  /\ UNCHANGED <<body, req, decodeOk, validOk, result>>
  /\ UNCHANGED <<envVars, concVars>>

Next ==
  \/ HandlerDecode
  \/ HandlerValidate
  \/ BusinessLogic
  \/ HandlerWriteHTTPError
  \/ HandlerSendOK
  \/ HandlerSendDataOK

Spec == Init /\ [][Next]_vars

\* ------------------------------------------- round trip of an envelope
\* json.Unmarshal of a JSON value into a field of type any: null leaves the
\* nil interface, an object becomes a map, an array becomes a slice.
unmarshalAny(v) ==
  CASE v = "null" -> Nil
    [] v = "{}"   -> "emptymap"
    [] OTHER      -> "list"

\* The value of the member named key, or absent when there is none.
memberValue(doc, key, absent) ==
  LET hits == {i \in 1..Len(doc) : doc[i][1] = key}
  IN  IF hits = {} THEN absent ELSE doc[CHOOSE i \in hits : TRUE][2]

\* json.Unmarshal(doc, &resp) for a zero Response: a member that is absent
\* leaves the zero value of its field.
jsonUnmarshal(doc) ==
  Response(memberValue(doc, "status", ""),
           memberValue(doc, "error", ""),
           IF memberValue(doc, "data", "absent") = "absent"
           THEN Nil
           ELSE unmarshalAny(memberValue(doc, "data", "absent")))

\* The messages the helpers and the services put into an envelope.
EnvMessages ==
  Messages \cup {"invalid request payload", "invalid input data", "internal server error"}

\* No request is being handled.
RequestIdle ==
  /\ pc = "Idle"
  /\ body = <<>>
  /\ req = ZeroReq
  /\ decodeOk = "unset"
  /\ validOk = "unset"
  /\ result = NoOutcome
  /\ w = NewWriter
  /\ log = <<>>

InitEnvelope ==
  /\ RequestIdle
  /\ epc = "start"
  /\ envelope = NoEnvelope
  /\ encoded = NoEncoding
  /\ decoded = Response("", "", Nil)
  /\ ConcIdle

BuildOK ==
  /\ epc = "start"
  /\ envelope' = [ctor |-> "OK", msg |-> "", data |-> Nil, resp |-> OK]
  /\ epc' = "built"
  /\ UNCHANGED <<encoded, decoded, reqVars, concVars>>

BuildDataOK ==
  /\ epc = "start"
  /\ \E d \in Payloads :
       envelope' = [ctor |-> "DataOK", msg |-> "", data |-> d, resp |-> DataOK(d)]
  /\ epc' = "built"
  /\ UNCHANGED <<encoded, decoded, reqVars, concVars>>

BuildError ==
  /\ epc = "start"
  /\ \E m \in EnvMessages :
       envelope' = [ctor |-> "Error", msg |-> m, data |-> Nil, resp |-> Error(m)]
  /\ epc' = "built"
  /\ UNCHANGED <<encoded, decoded, reqVars, concVars>>

BuildDataWithError ==
  /\ epc = "start"
  /\ \E m \in EnvMessages, d \in Payloads :
       envelope' = [ctor |-> "DataWithError", msg |-> m, data |-> d, resp |-> DataWithError(m, d)]
  /\ epc' = "built"
  /\ UNCHANGED <<encoded, decoded, reqVars, concVars>>

\* json.Marshal(resp)
Marshal ==
  /\ epc = "built"
  /\ encoded' = jsonEncode(envelope.resp)
  /\ epc' = "encoded"
  /\ UNCHANGED <<envelope, decoded, reqVars, concVars>>

\* json.Unmarshal(encoded, &resp), when there is an encoded form
Unmarshal ==
  /\ epc = "encoded"
  /\ encoded.err = ""
  /\ decoded' = jsonUnmarshal(encoded.doc)
  /\ epc' = "decoded"
  /\ UNCHANGED <<envelope, encoded, reqVars, concVars>>

NextEnvelope ==
  \/ BuildOK
  \/ BuildDataOK
  \/ BuildError
  \/ BuildDataWithError
  \/ Marshal
  \/ Unmarshal

SpecEnvelope == InitEnvelope /\ [][NextEnvelope]_vars

\* ------------------------------------------------ simultaneous requests
NReq == 2      \* number of requests handled at the same time

Reqs == 1..NReq

\* Bodies of the simultaneous requests: empty, a stray byte, {}, and the
\* objects with the names "A" and "Al".
CBodies == {<<>>, <<"x">>, <<"{", "}">>, <<"{", "k", "A", "}">>, <<"{", "k", "Al", "}">>}

\* What the service returns to a simultaneous request.
COutcomes ==
  {[kind |-> "ok", data |-> Nil, err |-> <<>>],
   [kind |-> "data", data |-> "list", err |-> <<>>],
   [kind |-> "data", data |-> "chan", err |-> <<>>],
   [kind |-> "err", data |-> Nil, err |-> New(404, "user not found")],
   [kind |-> "err", data |-> Nil, err |-> errorsNew("db down")]}

\* Each request has its own writer, body and handler; the logger and the
\* package-level validator are the only things the handlers share.
InitConc ==
  /\ RequestIdle
  /\ EnvIdle
  /\ cpc = [i \in Reqs |-> "Received"]
  /\ cbody \in [Reqs -> CBodies]
  /\ creq = [i \in Reqs |-> ZeroReq]
  /\ cresult = [i \in Reqs |-> NoOutcome]
  /\ cw = [i \in Reqs |-> NewWriter]
  /\ clog = <<>>
  /\ vcache = {}

\* The helpers touch the shared logger once per record; between two records
\* of one request the other requests run.

\* A handler that keeps the decoded value in a package-level variable.
CDecodeSharedReq(i) ==
  /\ cpc[i] = "Received"
  /\ LET d == jsonDecode(cbody[i])
     IN  /\ creq' = [j \in Reqs |-> d.req]
         /\ IF d.err # ""
            THEN /\ clog' = Append(clog, Record("ERROR", "failed to decode request body", op, <<d.err>>))
                 /\ cpc' = [cpc EXCEPT ![i] = "DecodeFailed"]
            ELSE /\ clog' = clog
                 /\ cpc' = [cpc EXCEPT ![i] = "Decoded"]
  /\ UNCHANGED <<cbody, cresult, cw, vcache, reqVars, envVars>>

\* DecodeRequest up to its own log record: the decoding and log.Error.
CDecode(i) ==
  /\ cpc[i] = "Received"
  /\ LET d == jsonDecode(cbody[i])
     IN  /\ creq' = [creq EXCEPT ![i] = d.req]
         /\ IF d.err # ""
            THEN /\ clog' = Append(clog, Record("ERROR", "failed to decode request body", op, <<d.err>>))
                 /\ cpc' = [cpc EXCEPT ![i] = "DecodeFailed"]
            ELSE /\ clog' = clog
                 /\ cpc' = [cpc EXCEPT ![i] = "Decoded"]
  /\ UNCHANGED <<cbody, cresult, cw, vcache, reqVars, envVars>>

\* The rest of a failed DecodeRequest: response.Err, return false.
CDecodeErr(i) ==
  /\ cpc[i] = "DecodeFailed"
  /\ LET e == Err(cw[i], clog, op, <<jsonDecode(cbody[i]).err>>, "invalid request payload", 400)
     IN  cw' = [cw EXCEPT ![i] = e.w] /\ clog' = e.log
  /\ cpc' = [cpc EXCEPT ![i] = "Returned"]
  /\ UNCHANGED <<cbody, creq, cresult, vcache, reqVars, envVars>>

\* ValidateRequest up to its own log record; validate.Struct caches the
\* layout of the struct type in the shared validator on first use.
CValidate(i) ==
  /\ cpc[i] = "Decoded"
  /\ LET v == validateStruct(creq[i])
     IN  IF v # ""
         THEN /\ clog' = Append(clog, Record("ERROR", "validation failed", op, <<v>>))
              /\ cpc' = [cpc EXCEPT ![i] = "ValidateFailed"]
         ELSE /\ clog' = clog
              /\ cpc' = [cpc EXCEPT ![i] = "Validated"]
  /\ vcache' = vcache \cup {"CreateUserRequest"}
  /\ UNCHANGED <<cbody, creq, cresult, cw, reqVars, envVars>>

\* The rest of a failed ValidateRequest: response.Err, return false.
CValidateErr(i) ==
  /\ cpc[i] = "ValidateFailed"
  /\ LET e == Err(cw[i], clog, op, <<validateStruct(creq[i])>>, "invalid input data", 400)
     IN  cw' = [cw EXCEPT ![i] = e.w] /\ clog' = e.log
  /\ cpc' = [cpc EXCEPT ![i] = "Returned"]
  /\ UNCHANGED <<cbody, creq, cresult, vcache, reqVars, envVars>>

CBusinessLogic(i) ==
  /\ cpc[i] = "Validated"
  /\ \E o \in COutcomes : cresult' = [cresult EXCEPT ![i] = o]
  /\ cpc' = [cpc EXCEPT ![i] = "Ran"]
  /\ UNCHANGED <<cbody, creq, cw, clog, vcache, reqVars, envVars>>

CWriteHTTPError(i) ==
  /\ cpc[i] = "Ran"
  /\ cresult[i].kind = "err"
  /\ LET e == WriteHTTPError(cw[i], clog, op, cresult[i].err)
     IN  cw' = [cw EXCEPT ![i] = e.w] /\ clog' = e.log
  /\ cpc' = [cpc EXCEPT ![i] = "Returned"]
  /\ UNCHANGED <<cbody, creq, cresult, vcache, reqVars, envVars>>

CSendOK(i) ==
  /\ cpc[i] = "Ran"
  /\ cresult[i].kind = "ok"
  /\ LET r == SendOK(cw[i], clog, op)
     IN  cw' = [cw EXCEPT ![i] = r.w] /\ clog' = r.log
  /\ cpc' = [cpc EXCEPT ![i] = "Returned"]
  /\ UNCHANGED <<cbody, creq, cresult, vcache, reqVars, envVars>>

CSendDataOK(i) ==
  /\ cpc[i] = "Ran"
  /\ cresult[i].kind = "data"
  /\ LET r == SendDataOK(cw[i], clog, op, cresult[i].data)
     IN  cw' = [cw EXCEPT ![i] = r.w] /\ clog' = r.log
  /\ cpc' = [cpc EXCEPT ![i] = "Returned"]
  /\ UNCHANGED <<cbody, creq, cresult, vcache, reqVars, envVars>>

NextConc ==
  \/ \E i \in Reqs : CDecode(i)
  \/ \E i \in Reqs : CDecodeErr(i)
  \/ \E i \in Reqs : CValidate(i)
  \/ \E i \in Reqs : CValidateErr(i)
  \/ \E i \in Reqs : CBusinessLogic(i)
  \/ \E i \in Reqs : CWriteHTTPError(i)
  \/ \E i \in Reqs : CSendOK(i)
  \/ \E i \in Reqs : CSendDataOK(i)

SpecConc == InitConc /\ [][NextConc]_vars

\* ================================================================ claims
\* The link of an error's chain that a constructor produced.
Base(err) == err[Len(err)]

\* Some link of the chain is an apperr.HTTPError, by value or by pointer.
Classified(err) ==
  \E i \in 1..Len(err) : err[i].type \in {"apperr.HTTPError", "*apperr.HTTPError"}

Returned == pc = "Returned"

ErrorDoc(m) == << <<"status", "Error">>, <<"error", m>> >>

ErrorDataDoc(m, d) == << <<"status", "Error">>, <<"error", m>>, <<"data", d>> >>

Encodable(d) == d # "chan"

Count(calls, name) == Cardinality({i \in 1..Len(calls) : calls[i] = name})

\* Every value a member of the one written document carries.
BodyValues == UNION {{w.body[b][i][2] : i \in 1..Len(w.body[b])} : b \in 1..Len(w.body)}

\* C1: an error with no apperr.HTTPError in its chain is answered with
\* status 500 and the body {"status":"Error","error":"internal server
\* error"}; its own text goes to the one log record and to no member of
\* the body.
C1_UnclassifiedIs500 ==
  (Returned /\ result.kind = "err" /\ ~Classified(result.err)) =>
     /\ w.status = 500
     /\ w.body = << ErrorDoc("internal server error") >>
     /\ log = << Record("ERROR", "internal error", op, errorText(result.err)) >>
     /\ \A i \in 1..Len(result.err) :
          result.err[i].Message # "" => result.err[i].Message \notin BodyValues

C1_Witness ==
  /\ Returned
  /\ result.kind = "err"
  /\ result.err = wrap(errorsNew("db down"))
  /\ w.status = 500
  /\ log[1].err = <<"ctx: ", "db down">>

\* C2 (as claimed): a classified error built by New(S, M), for every S and
\* every M including "", is answered with status S and the body
\* {"status":"Error","error":M}: the error member is present and equals M
\* and there is no data member.
C2_AsClaimed ==
  (Returned /\ result.kind = "err" /\ result.err \in {New(c, m) : c \in Codes, m \in Messages}) =>
     /\ w.status = Base(result.err).Code
     /\ w.body = << ErrorDoc(Base(result.err).Message) >>

\* C3 (as claimed): a classified error built by NewWithData(S, M, D), for
\* every D including nil, is answered with status S and the body
\* {"status":"Error","error":M,"data":D}.
C3_AsClaimed ==
  (Returned /\ result.kind = "err"
     /\ \E c \in Codes, m \in Messages, d \in Payloads : result.err = NewWithData(c, m, d)) =>
     /\ w.status = Base(result.err).Code
     /\ w.body = << ErrorDataDoc(Base(result.err).Message, marshalAny(Base(result.err).Data)) >>

\* C3 (amended): a classified error built by NewWithData(S, M, D) is answered
\* with status S; when D is non-nil and encodable the body is the document
\* with status "Error", the error member M (left out when M is "") and the
\* data member D; when D is nil the body has no data member; when D cannot
\* be encoded no body is written.
C3_Amended ==
  (Returned /\ result.kind = "err"
     /\ \E c \in Codes, m \in Messages, d \in Payloads : result.err = NewWithData(c, m, d)) =>
     LET e   == Base(result.err)
         err == IF e.Message = "" THEN <<>> ELSE << <<"error", e.Message>> >>
     IN  /\ w.status = e.Code
         /\ (e.Data # Nil /\ Encodable(e.Data)) =>
               w.body = << << <<"status", "Error">> >> \o err \o << <<"data", marshalAny(e.Data)>> >> >>
         /\ (e.Message # "" /\ e.Data # Nil /\ Encodable(e.Data)) =>
               w.body = << ErrorDataDoc(e.Message, marshalAny(e.Data)) >>
         /\ e.Data = Nil => w.body = << << <<"status", "Error">> >> \o err >>
         /\ ~Encodable(e.Data) => w.body = <<>>

C3_Witness ==
  /\ Returned
  /\ result.kind = "err"
  /\ result.err = NewWithData(409, "user not found", "list")
  /\ w.body = << ErrorDataDoc("user not found", "[1,2]") >>

\* C4 (as claimed): an error produced by a constructor of apperr, in the
\* value-returning or the pointer-returning form, direct or wrapped, is
\* answered on the classified branch with its own status code, never with
\* 500 and "internal server error".
C4_AsClaimed ==
  (Returned /\ result.kind = "err"
     /\ Base(result.err).type \in {"apperr.HTTPError", "*apperr.HTTPError"}) =>
     /\ w.status = Base(result.err).Code
     /\ log[Len(log)].msg = "handled error"
     /\ "internal server error" \notin BodyValues

\* A request body that is exactly one JSON object conforming to T.
WellFormed(b) ==
  LET v == scanValue(b)
  IN  /\ v.st = "object"
      /\ v.has => v.mst = "string"
      /\ v.n = Len(b)

InvalidPayloadDoc == ErrorDoc("invalid request payload")

InvalidInputDoc == ErrorDoc("invalid input data")

\* C5 (as claimed): every body that is not well-formed JSON conforming to T
\* (empty, broken, wrong field types, a valid value followed by trailing
\* bytes) makes DecodeRequest return ok=false and write 400 with
\* {"status":"Error","error":"invalid request payload"}.
C5_AsClaimed ==
  (pc # "Received" /\ ~WellFormed(body)) =>
     /\ decodeOk = FALSE
     /\ w.status = 400
     /\ w.body = << InvalidPayloadDoc >>

\* The rule `required,min=2` on Name, stated on the value.
Violates(r) == StrLen(r.Name) < 2

\* C6: a decoded value that violates a declared constraint makes
\* ValidateRequest return false and write 400 with
\* {"status":"Error","error":"invalid input data"}; the body {"name":"A"}
\* decodes with ok=true and is rejected so.
C6_InvalidInputIs400 ==
  /\ (pc \notin {"Received", "Decoded"} /\ decodeOk = TRUE /\ Violates(req)) =>
        /\ Returned
        /\ validOk = FALSE
        /\ w.status = 400
        /\ w.header = "application/json"
        /\ w.body = << InvalidInputDoc >>
  /\ (pc # "Received" /\ body = <<"{", "k", "A", "}">>) => decodeOk = TRUE /\ req.Name = "A"

C6_Witness ==
  /\ Returned
  /\ body = <<"{", "k", "A", "}">>
  /\ decodeOk = TRUE
  /\ validOk = FALSE
  /\ w.status = 400

OKDoc == << <<"status", "OK">> >>

\* C7 (as claimed): SendOK writes 200 and {"status":"OK"}; SendDataOK writes
\* 200 and {"status":"OK","data":D} with the data member present for every
\* D, nil included.
C7_AsClaimed ==
  /\ (Returned /\ result.kind = "ok") => (w.status = 200 /\ w.body = << OKDoc >>)
  /\ (Returned /\ result.kind = "data") =>
        /\ w.status = 200
        /\ w.body = << OKDoc \o << <<"data", marshalAny(result.data)>> >> >>

\* C7 (amended): SendOK writes 200 and {"status":"OK"}; SendDataOK writes 200
\* and, for a non-nil encodable D, {"status":"OK","data":D}; for a nil D the
\* body is {"status":"OK"} with no data member; for a D that cannot be
\* encoded no body is written.
C7_Amended ==
  /\ (Returned /\ result.kind = "ok") => (w.status = 200 /\ w.body = << OKDoc >>)
  /\ (Returned /\ result.kind = "data") =>
        /\ w.status = 200
        /\ (result.data # Nil /\ Encodable(result.data)) =>
              w.body = << OKDoc \o << <<"data", marshalAny(result.data)>> >> >>
        /\ result.data = Nil => w.body = << OKDoc >>
        /\ ~Encodable(result.data) => w.body = <<>>

C7_Witness ==
  /\ Returned
  /\ result.kind = "data"
  /\ result.data = "emptymap"
  /\ w.status = 200
  /\ w.body = << << <<"status", "OK">>, <<"data", "{}">> >> >>

\* The payload the last helper of the path had to encode.
PathPayload ==
  CASE result.kind = "data" -> result.data
    [] result.kind = "err" /\ errorsAs(result.err, "*apperr.HTTPError") # 0 ->
         result.err[errorsAs(result.err, "*apperr.HTTPError")].Data
    [] OTHER -> Nil

\* C8 (as claimed): every path of the documented handler ends with the
\* status code committed exactly once and the body written exactly once.
C8_AsClaimed ==
  Returned => (Count(w.calls, "WriteHeader") = 1 /\ Count(w.calls, "Write") = 1)

\* C8 (amended): every path of the documented handler ends with the status
\* code committed exactly once and the body written at most once: exactly
\* once, except on the paths whose payload cannot be encoded, where no body
\* is written; before the handler returns nothing is written.
C8_Amended ==
  /\ Returned =>
        /\ Count(w.calls, "WriteHeader") = 1
        /\ Count(w.calls, "Header.Set") = 1
        /\ w.status # 0
        /\ Count(w.calls, "Write") = (IF Encodable(PathPayload) THEN 1 ELSE 0)
        /\ Len(w.body) = Count(w.calls, "Write")
  /\ ~Returned => w = NewWriter

C8_Witness ==
  /\ Returned
  /\ result.kind = "data"
  /\ result.data = "chan"
  /\ w.status = 200
  /\ w.calls = <<"Header.Set", "WriteHeader">>

\* The request ended on a failure path.
Failed ==
  Returned /\ (decodeOk = FALSE \/ validOk = FALSE \/ result.kind = "err")

\* C9 (as claimed): on every failure path (decode, validation, classified,
\* unclassified) exactly one log record is emitted during the request.
C9_AsClaimed == Failed => Len(log) = 1

Complete(x) == x.header = "application/json" /\ x.status # 0 /\ Len(x.body) = 1

\* C10: DecodeRequest and ValidateRequest return false exactly when they
\* have written a complete response (content type, status, body); when they
\* return true they have touched neither the writer nor the log.
C10_FlagIffWritten ==
  [][ /\ (pc = "Received" /\ pc' # "Received") =>
            /\ decodeOk' \in BOOLEAN
            /\ (decodeOk' = FALSE) <=> (Complete(w') /\ w' # w)
            /\ (decodeOk' = TRUE) => (w' = w /\ log' = log)
      /\ (pc = "Decoded" /\ pc' # "Decoded") =>
            /\ validOk' \in BOOLEAN
            /\ (validOk' = FALSE) <=> (Complete(w') /\ w' # w)
            /\ (validOk' = TRUE) => (w' = w /\ log' = log)
    ]_vars

C10_Witness ==
  /\ pc = "Validated"
  /\ decodeOk = TRUE
  /\ validOk = TRUE
  /\ w = NewWriter
  /\ log = <<>>

\* The writer after a helper has answered 400 with the message m.
FailedResponse(m) ==
  [header |-> "application/json", status |-> 400, body |-> << ErrorDoc(m) >>,
   calls |-> <<"Header.Set", "WriteHeader", "Write">>]

\* C11: the response of a failed DecodeRequest is one and the same writer
\* state for every body that fails to decode, and the response of a failed
\* ValidateRequest is one and the same for every value that fails
\* validation; the parse error and the violated rule appear in the log
\* records only.
C11_FailureResponseIsConstant ==
  /\ (Returned /\ decodeOk = FALSE) =>
        /\ w = FailedResponse("invalid request payload")
        /\ \A i \in 1..Len(log) : log[i].err = <<jsonDecode(body).err>>
        /\ jsonDecode(body).err \notin BodyValues
  /\ (Returned /\ decodeOk = TRUE /\ validOk = FALSE) =>
        /\ w = FailedResponse("invalid input data")
        /\ \A i \in 1..Len(log) : log[i].err = <<validateStruct(req)>>
        /\ validateStruct(req) \notin BodyValues

C11_Witness ==
  /\ Returned
  /\ decodeOk = FALSE
  /\ body = <<"7">>
  /\ log[1].err = <<"cannot unmarshal into Go value">>
  /\ w = FailedResponse("invalid request payload")

\* A document with the shape of the envelope: status first, then the
\* optional error, then the optional data.
IsEnvelopeDoc(doc) ==
  /\ Len(doc) >= 1
  /\ doc[1][1] = "status"
  /\ doc[1][2] \in {StatusOK, StatusError}
  /\ [i \in 1..(Len(doc) - 1) |-> doc[i + 1][1]] \in {<<>>, <<"error">>, <<"data">>, <<"error", "data">>}

\* C12 (as claimed): every response a helper writes carries the JSON
\* content type and an envelope as its body, the content type being set
\* before the status is committed and the status before the body is written.
C12_AsClaimed ==
  Returned =>
     /\ w.header = "application/json"
     /\ w.calls = <<"Header.Set", "WriteHeader", "Write">>
     /\ Len(w.body) = 1
     /\ IsEnvelopeDoc(w.body[1])

\* C12 (amended): every response a helper writes carries the JSON content
\* type; the content type is set before the status is committed and the
\* status is committed before the body is written; the body is one envelope,
\* except that no body is written when the payload cannot be encoded.
C12_Amended ==
  Returned =>
     /\ w.header = "application/json"
     /\ w.status # 0
     /\ IF Encodable(PathPayload)
        THEN /\ w.calls = <<"Header.Set", "WriteHeader", "Write">>
             /\ Len(w.body) = 1
             /\ IsEnvelopeDoc(w.body[1])
        ELSE /\ w.calls = <<"Header.Set", "WriteHeader">>
             /\ w.body = <<>>

C12_Witness ==
  /\ Returned
  /\ result.kind = "err"
  /\ ~Classified(result.err)
  /\ w.header = "application/json"
  /\ w.calls = <<"Header.Set", "WriteHeader", "Write">>

\* The members named key of a document.
Members(doc, key) == {i \in 1..Len(doc) : doc[i][1] = key}

\* C13: no envelope built by OK, DataOK, Error or DataWithError, and no
\* body a helper writes, has status "OK" together with a non-empty error;
\* data accompanies either status.
C13_OKHasNoError ==
  /\ OK.Error = ""
  /\ \A d \in Payloads : DataOK(d).Status = StatusOK /\ DataOK(d).Error = ""
  /\ \A m \in Messages : Error(m).Status = StatusError
  /\ \A m \in Messages, d \in Payloads : DataWithError(m, d).Status = StatusError
  /\ \A b \in 1..Len(w.body) :
        <<"status", StatusOK>> \in {w.body[b][i] : i \in 1..Len(w.body[b])}
           => Members(w.body[b], "error") = {}

C13_Witness ==
  /\ Returned
  /\ result.kind = "data"
  /\ result.data = "list"
  /\ w.body = << << <<"status", "OK">>, <<"data", "[1,2]">> >> >>

\* C15: SendOK and SendDataOK always return; when the payload cannot be
\* encoded the status 200 and the JSON content type are committed, no body
\* is written, nothing of the encoding error reaches the log, and the record
\* "operation successful" is logged all the same.
C15_SendNeverFails ==
  /\ (pc = "Ran" /\ result.kind = "ok") => ENABLED HandlerSendOK
  /\ (pc = "Ran" /\ result.kind = "data") => ENABLED HandlerSendDataOK
  /\ (Returned /\ result.kind \in {"ok", "data"}) =>
        /\ w.status = 200
        /\ w.header = "application/json"
        /\ log = << Record("INFO", "operation successful", op, <<>>) >>
  /\ (Returned /\ result.kind = "data" /\ ~Encodable(result.data)) =>
        /\ w.calls = <<"Header.Set", "WriteHeader">>
        /\ w.body = <<>>

C15_Witness ==
  /\ Returned
  /\ result.kind = "data"
  /\ result.data = "chan"
  /\ w.status = 200
  /\ w.body = <<>>
  /\ log[1].msg = "operation successful"

\* The optional fields the constructor of the envelope was given.
Populated ==
  CASE envelope.ctor = "DataOK"        -> {"data"}
    [] envelope.ctor = "Error"         -> {"error"}
    [] envelope.ctor = "DataWithError" -> {"error", "data"}
    [] OTHER                           -> {}

\* C14 (as claimed): for every envelope a constructor built, decoding its
\* encoded form gives an envelope equal in every populated field, encoding
\* that one again gives the same document, no member of the encoded form is
\* null or the empty string, and a field that was not populated is absent
\* from the encoded form and after decoding.
C14_AsClaimed ==
  (epc = "decoded") =>
     /\ decoded.Status = envelope.resp.Status
     /\ "error" \in Populated => decoded.Error = envelope.resp.Error
     /\ "data" \in Populated => (decoded.Data = Nil <=> envelope.resp.Data = Nil)
     /\ jsonEncode(decoded).doc = encoded.doc
     /\ \A i \in 1..Len(encoded.doc) : encoded.doc[i][2] \notin {"null", ""}
     /\ "error" \notin Populated => (Members(encoded.doc, "error") = {} /\ decoded.Error = "")
     /\ "data" \notin Populated => (Members(encoded.doc, "data") = {} /\ decoded.Data = Nil)

\* The writer of a request with body b and service result o when the
\* handler runs alone, from Received to its return.
AloneResponse(b, o) ==
  LET d == DecodeRequest(NewWriter, b, <<>>, op)
  IN  IF ~d.ok THEN d.w
      ELSE LET v == ValidateRequest(d.w, d.log, op, d.req)
           IN  IF ~v.ok THEN v.w
               ELSE CASE o.kind = "err"  -> WriteHTTPError(v.w, v.log, op, o.err).w
                      [] o.kind = "data" -> SendDataOK(v.w, v.log, op, o.data).w
                      [] OTHER           -> SendOK(v.w, v.log, op).w

====
